---- MODULE Spec2Model ----
(***************************************************************************)
(* Power BI Python visuals of the Meeting Notes Generator dashboard        *)
(* (src/powerbi/python-visuals/meeting-notes).  Every script is one pass   *)
(* over the DataFrame `dataset` the host injects; a script is one action.  *)
(*                                                                         *)
(* Strings are sequences of one-character strings, so that lower(),        *)
(* str.contains, split and the ordering of group keys are computed.        *)
(* A missing cell (NaN/None/NaT) is NULL.  Floats are exact rationals      *)
(* <<numerator, denominator>>; a number formatted with one decimal place   *)
(* is its number of tenths.  A Python expression that may raise evaluates  *)
(* to [ok |-> TRUE, val |-> v] or [ok |-> FALSE, exc |-> name].            *)
(***************************************************************************)
EXTENDS Integers, Sequences, FiniteSets

VARIABLES dataset, kpi, kpi_v2, funnel, usage, top_users, breakdown,
          possible_names, found

vars == <<dataset, kpi, kpi_v2, funnel, usage, top_users, breakdown,
          possible_names, found>>

\* ------------------------------------------------------------------ bounds

\* Longest table handed to the KPI scripts.
MaxKpiRows == 2

\* Longest table handed to the funnel script.
MaxFunnelRows == 4

\* ----------------------------------------------------------------- strings

Uppers == <<"A","B","C","D","E","F","G","H","I","J","K","L","M",
            "N","O","P","Q","R","S","T","U","V","W","X","Y","Z">>

Lowers == <<"a","b","c","d","e","f","g","h","i","j","k","l","m",
            "n","o","p","q","r","s","t","u","v","w","x","y","z">>

Digits == <<"0","1","2","3","4","5","6","7","8","9">>

\* A missing cell.
NULL == <<"NaN">>

\* str.lower() on one character.
lower_char(c) ==
    IF \E i \in 1..26 : Uppers[i] = c
    THEN Lowers[CHOOSE i \in 1..26 : Uppers[i] = c]
    ELSE c

\* str.lower()
lower(s) == [i \in 1..Len(s) |-> lower_char(s[i])]

\* Code point of a character (ASCII), the order Python compares strings by.
ord(c) ==
    IF \E i \in 1..26 : Uppers[i] = c THEN 64 + (CHOOSE i \in 1..26 : Uppers[i] = c)
    ELSE IF \E i \in 1..26 : Lowers[i] = c THEN 96 + (CHOOSE i \in 1..26 : Lowers[i] = c)
    ELSE IF c = "@" THEN 64
    ELSE IF c = "_" THEN 95
    ELSE IF c = "." THEN 46
    ELSE 47 + (CHOOSE i \in 1..10 : Digits[i] = c)

\* a < b for Python strings: lexicographic by code point.
RECURSIVE str_lt(_, _)
str_lt(a, b) ==
    IF b = <<>> THEN FALSE
    ELSE IF a = <<>> THEN TRUE
    ELSE IF ord(Head(a)) # ord(Head(b)) THEN ord(Head(a)) < ord(Head(b))
    ELSE str_lt(Tail(a), Tail(b))

\* pat occurs in s at offset k (0-based); with nocase the characters are compared
\* after lower-casing, otherwise as they are.
occurs_at(s, pat, k, nocase) ==
    /\ k + Len(pat) <= Len(s)
    /\ \A j \in 1..Len(pat) :
          IF nocase THEN lower_char(s[k + j]) = lower_char(pat[j]) ELSE s[k + j] = pat[j]

\* One cell of Series.str.contains(pat, case=False, na=False): a missing cell gives
\* na (False); otherwise the pattern (no regex metacharacter) is searched ignoring case.
str_contains_nocase(s, pat) ==
    IF s = NULL THEN FALSE
    ELSE \E k \in 0..Len(s) : occurs_at(s, pat, k, TRUE)

\* ----------------------------------------------------------- string literals

\* 'UserEmail'
s_UserEmail == <<"U","s","e","r","E","m","a","i","l">>
\* 'useremail'
s_useremail == <<"u","s","e","r","e","m","a","i","l">>
\* 'user_email'
s_user_email == <<"u","s","e","r","_","e","m","a","i","l">>
\* 'Email'
s_Email == <<"E","m","a","i","l">>
\* 'User'
s_User == <<"U","s","e","r">>
\* 'EventType'
s_EventType == <<"E","v","e","n","t","T","y","p","e">>
\* 'eventtype'
s_eventtype == <<"e","v","e","n","t","t","y","p","e">>
\* 'event_type'
s_event_type == <<"e","v","e","n","t","_","t","y","p","e">>
\* 'Type'
s_Type == <<"T","y","p","e">>
\* 'EventID'
s_EventID == <<"E","v","e","n","t","I","D">>
\* 'eventid'
s_eventid == <<"e","v","e","n","t","i","d">>
\* 'event_id'
s_event_id == <<"e","v","e","n","t","_","i","d">>
\* 'ID'
s_ID == <<"I","D">>
\* 'TourAction'
s_TourAction == <<"T","o","u","r","A","c","t","i","o","n">>
\* 'touraction'
s_touraction == <<"t","o","u","r","a","c","t","i","o","n">>
\* 'tour_action'
s_tour_action == <<"t","o","u","r","_","a","c","t","i","o","n">>
\* 'Action'
s_Action == <<"A","c","t","i","o","n">>
\* 'EventDate'
s_EventDate == <<"E","v","e","n","t","D","a","t","e">>
\* 'notesGenerated'
s_notesGenerated == <<"n","o","t","e","s","G","e","n","e","r","a","t","e","d">>
\* 'userLogin'
s_userLogin == <<"u","s","e","r","L","o","g","i","n">>
\* 'Export'
s_Export == <<"E","x","p","o","r","t">>
\* 'started'
s_started == <<"s","t","a","r","t","e","d">>
\* 'completed'
s_completed == <<"c","o","m","p","l","e","t","e","d">>

\* ---------------------------------------------------------------- numbers

RECURSIVE gcd(_, _)
gcd(a, b) == IF b = 0 THEN a ELSE gcd(b, a % b)

\* The rational n/d (d > 0, n >= 0) in lowest terms.
Rat(n, d) == IF n = 0 THEN <<0, 1>> ELSE <<n \div gcd(n, d), d \div gcd(n, d)>>

\* The number 0 (the int literal 0 of the scripts compares equal to 0.0).
Zero == <<0, 1>>

rat_lt(a, b) == a[1] * b[2] < b[1] * a[2]

rat_mul(a, b) == Rat(a[1] * b[1], a[2] * b[2])

\* Python's max(a, b): b only when it is strictly greater.
py_max(a, b) == IF rat_lt(a, b) THEN b ELSE a

Ok(v) == [ok |-> TRUE, val |-> v]

Raise(e) == [ok |-> FALSE, exc |-> e]

\* Python's a / b on two ints.
truediv(a, b) == IF b = 0 THEN Raise("ZeroDivisionError") ELSE Ok(Rat(a, b))

\* f"{x:.1f}": x to one decimal place, as a number of tenths; a value exactly
\* halfway between two tenths goes to the even one.
format_1f(x) ==
    LET n == 10 * x[1]
        q == n \div x[2]
        r == 2 * (n % x[2])
    IN  IF r > x[2] THEN q + 1
        ELSE IF r < x[2] THEN q
        ELSE IF q % 2 = 0 THEN q ELSE q + 1

\* f"{x:,.0f}" of a whole number: the number itself.
format_0f(n) == n

\* --------------------------------------------------------------- DataFrame

\* A DataFrame is [columns: names, dtypes: "object" | "int64", rows: tuples of cells].
Positions(df, name) == {i \in 1..Len(df.columns) : df.columns[i] = name}

\* df[name]: the column, or KeyError.
getitem(df, name) ==
    IF Positions(df, name) = {} THEN Raise("KeyError")
    ELSE LET i == CHOOSE i \in Positions(df, name) : TRUE
         IN  Ok([dtype |-> df.dtypes[i],
                 values |-> [r \in 1..Len(df.rows) |-> df.rows[r][i]]])

\* Series.nunique(): distinct cells, missing ones not counted.
nunique(col) == Cardinality({col.values[r] : r \in 1..Len(col.values)} \ {NULL})

\* len(df[col == s])
count_eq(col, s) == Cardinality({r \in 1..Len(col.values) : col.values[r] = s})

\* len(df[col.str.contains('Export', case=False, na=False)]): the .str accessor
\* raises AttributeError on a column that does not hold strings.
count_contains(col, pat) ==
    IF col.dtype # "object" THEN Raise("AttributeError")
    ELSE Ok(Cardinality({r \in 1..Len(col.values) : str_contains_nocase(col.values[r], pat)}))

NotRun == [status |-> "not_run"]

Aborted(e) == [status |-> "error", error |-> e]

\* ------------------------------------------------------- 01_kpi_cards.py

\* total_users = df['UserEmail'].nunique()
total_users(df) ==
    LET c == getitem(df, s_UserEmail)
    IN  IF c.ok THEN Ok(nunique(c.val)) ELSE c

\* notes_generated = len(df[df['EventType'] == 'notesGenerated'])
notes_generated(df) ==
    LET c == getitem(df, s_EventType)
    IN  IF c.ok THEN Ok(count_eq(c.val, s_notesGenerated)) ELSE c

\* total_exports = len(df[df['EventType'].str.contains('Export', case=False, na=False)])
total_exports(df) ==
    LET c == getitem(df, s_EventType)
    IN  IF c.ok THEN count_contains(c.val, s_Export) ELSE c

\* The rate without its guard on tours_started.
completion_rate_unguarded(tours_completed, tours_started) ==
    LET q == truediv(tours_completed, tours_started)
    IN  IF q.ok THEN Ok(rat_mul(q.val, <<100, 1>>)) ELSE q

\* (tours_completed / tours_started * 100) if tours_started > 0 else 0
completion_rate(tours_completed, tours_started) ==
    IF tours_started > 0
    THEN LET q == truediv(tours_completed, tours_started)
         IN  IF q.ok THEN Ok(rat_mul(q.val, <<100, 1>>)) ELSE q
    ELSE Ok(Zero)

\* tours_started, tours_completed and tour_completion_rate
tour_completion_rate(df) ==
    LET c == getitem(df, s_TourAction)
    IN  IF c.ok
        THEN completion_rate(count_eq(c.val, s_completed), count_eq(c.val, s_started))
        ELSE c

\* The loop over kpis: one card per KPI, the value as ',.0f' or, with the '%'
\* suffix, as '.1f'.
kpi_card(title, value, suffix) ==
    [title |-> title, suffix |-> suffix,
     text |-> IF suffix # "%" THEN format_0f(value) ELSE format_1f(value)]

kpi_cards(users, notes, exports, rate) ==
    << kpi_card("Total Users", users, ""),
       kpi_card("Notes Generated", notes, ""),
       kpi_card("Total Exports", exports, ""),
       kpi_card("Tour Completion", rate, "%") >>

Rendered(users, notes, exports, rate) ==
    [status |-> "rendered", total_users |-> users, notes_generated |-> notes,
     total_exports |-> exports, tour_completion_rate |-> rate,
     cards |-> kpi_cards(users, notes, exports, rate)]

\* The whole script: the first statement that raises ends it.
KpiCardsScript(df) ==
    LET u == total_users(df)
        n == notes_generated(df)
        e == total_exports(df)
        t == tour_completion_rate(df)
    IN  IF ~u.ok THEN Aborted(u.exc)
        ELSE IF ~n.ok THEN Aborted(n.exc)
        ELSE IF ~e.ok THEN Aborted(e.exc)
        ELSE IF ~t.ok THEN Aborted(t.exc)
        ELSE Rendered(u.val, n.val, e.val, t.val)

\* ---------------------------------------------------- 01_kpi_cards_v2.py

\* The not-found result of find_column.
None == <<"None">>

\* df_columns_lower = {col.lower(): col for col in df.columns}: of two columns
\* with one lower-case form the later one stays.
df_columns_lower(df) ==
    [k \in {lower(df.columns[i]) : i \in 1..Len(df.columns)} |->
        LET at == {i \in 1..Len(df.columns) : lower(df.columns[i]) = k}
        IN  df.columns[CHOOSE i \in at : \A j \in at : j <= i]]

\* for name in possible_names: the first whose lower-case form is a key.
RECURSIVE find_from(_, _, _)
find_from(lowered, names, i) ==
    IF i > Len(names) THEN None
    ELSE IF lower(names[i]) \in DOMAIN lowered THEN lowered[lower(names[i])]
    ELSE find_from(lowered, names, i + 1)

\* The lookup without .lower() on the alias.
find_column_alias_as_written(df, names) ==
    LET lowered == df_columns_lower(df)
        hits == {i \in 1..Len(names) : names[i] \in DOMAIN lowered}
    IN  IF hits = {} THEN None
        ELSE lowered[names[CHOOSE i \in hits : \A j \in hits : i <= j]]

find_column(df, names) == find_from(df_columns_lower(df), names, 1)

user_names == <<s_UserEmail, s_useremail, s_user_email, s_Email, s_User>>

event_type_names == <<s_EventType, s_eventtype, s_event_type, s_Type>>

event_id_names == <<s_EventID, s_eventid, s_event_id, s_ID>>

tour_action_names == <<s_TourAction, s_touraction, s_tour_action, s_Action>>

\* `if col:` on the result of find_column.
truthy(col) == col # None /\ col # <<>>

\* try: <body> / except: <name> = 0
try_or_zero(res, zero) == IF res.ok THEN res.val ELSE zero

\* The users counted by row, not by distinct address.
total_users_v2_rows(df, user_col) ==
    IF truthy(user_col)
    THEN LET c == getitem(df, user_col)
         IN  IF c.ok THEN Ok(Len(c.val.values)) ELSE c
    ELSE Ok(0)

total_users_v2(df, user_col) ==
    IF truthy(user_col)
    THEN LET c == getitem(df, user_col)
         IN  IF c.ok THEN Ok(nunique(c.val)) ELSE c
    ELSE Ok(0)

notes_generated_v2(df, event_type_col) ==
    IF truthy(event_type_col)
    THEN LET c == getitem(df, event_type_col)
         IN  IF c.ok THEN Ok(count_eq(c.val, s_notesGenerated)) ELSE c
    ELSE Ok(0)

total_exports_v2(df, event_type_col) ==
    IF truthy(event_type_col)
    THEN LET c == getitem(df, event_type_col)
         IN  IF c.ok THEN count_contains(c.val, s_Export) ELSE c
    ELSE Ok(0)

completion_rate_v2(tours_completed, tours_started) ==
    IF tours_started > 0
    THEN LET q == truediv(tours_completed, tours_started)
         IN  IF q.ok THEN Ok(rat_mul(q.val, <<100, 1>>)) ELSE q
    ELSE Ok(Zero)

tour_completion_rate_v2(df, tour_action_col) ==
    IF truthy(tour_action_col)
    THEN LET c == getitem(df, tour_action_col)
         IN  IF c.ok
             THEN completion_rate_v2(count_eq(c.val, s_completed), count_eq(c.val, s_started))
             ELSE c
    ELSE Ok(Zero)

\* The script with one try block around the four metrics: the first failure
\* zeroes every metric.
KpiCardsV2Script_one_try(df) ==
    LET user_col == find_column(df, user_names)
        event_type_col == find_column(df, event_type_names)
        event_id_col == find_column(df, event_id_names)
        tour_action_col == find_column(df, tour_action_names)
        u == total_users_v2(df, user_col)
        n == notes_generated_v2(df, event_type_col)
        e == total_exports_v2(df, event_type_col)
        t == tour_completion_rate_v2(df, tour_action_col)
        all_ok == u.ok /\ n.ok /\ e.ok /\ t.ok
        users == IF all_ok THEN u.val ELSE 0
        notes == IF all_ok THEN n.val ELSE 0
        exports == IF all_ok THEN e.val ELSE 0
        rate == IF all_ok THEN t.val ELSE Zero
    IN  [status |-> "rendered",
         user_col |-> user_col, event_type_col |-> event_type_col,
         event_id_col |-> event_id_col, tour_action_col |-> tour_action_col,
         total_users |-> users, notes_generated |-> notes,
         total_exports |-> exports, tour_completion_rate |-> rate,
         cards |-> kpi_cards(users, notes, exports, rate)]

\* The whole script: the four columns are resolved, then each metric is computed
\* in a try block of its own, and the four cards are drawn.
KpiCardsV2Script(df) ==
    LET user_col == find_column(df, user_names)
        event_type_col == find_column(df, event_type_names)
        event_id_col == find_column(df, event_id_names)
        tour_action_col == find_column(df, tour_action_names)
        users == try_or_zero(total_users_v2(df, user_col), 0)
        notes == try_or_zero(notes_generated_v2(df, event_type_col), 0)
        exports == try_or_zero(total_exports_v2(df, event_type_col), 0)
        rate == try_or_zero(tour_completion_rate_v2(df, tour_action_col), Zero)
    IN  [status |-> "rendered",
         user_col |-> user_col, event_type_col |-> event_type_col,
         event_id_col |-> event_id_col, tour_action_col |-> tour_action_col,
         total_users |-> users, notes_generated |-> notes,
         total_exports |-> exports, tour_completion_rate |-> rate,
         cards |-> kpi_cards(users, notes, exports, rate)]

\* ------------------------------------------- 04_feature_adoption_funnel.py

\* max_width = 0.8
max_width == <<4, 5>>

\* min_width = 0.3
min_width == <<3, 10>>

\* funnel_data as first built: three stages, each with its count.
funnel_stages(total_logins, notes, exports) ==
    << [stage |-> "User Login", count |-> total_logins, color |-> "#0078D4"],
       [stage |-> "Notes Generated", count |-> notes, color |-> "#107C10"],
       [stage |-> "Exported", count |-> exports, color |-> "#FF8C00"] >>

\* (funnel_data[i]['count'] / funnel_data[0]['count']) * 100, or 0 without a login
conversion(count, first_count) ==
    IF first_count > 0
    THEN LET q == truediv(count, first_count)
         IN  IF q.ok THEN Ok(rat_mul(q.val, <<100, 1>>)) ELSE q
    ELSE Ok(Zero)

\* The conversions taken from the stage before, not from the first stage.
with_conversions_previous(data) ==
    [i \in 1..Len(data) |->
        IF i = 1 THEN Ok(data[i])
        ELSE LET c == conversion(data[i].count, data[i - 1].count)
             IN  IF c.ok
                 THEN Ok([stage |-> data[i].stage, count |-> data[i].count,
                          color |-> data[i].color, conversion |-> c.val])
                 ELSE c]

\* for i in range(1, len(funnel_data)): the stages after the first get 'conversion'.
\* (Sequences are 1-based here: stage 1 is funnel_data[0].)
with_conversions(data) ==
    [i \in 1..Len(data) |->
        IF i = 1 THEN Ok(data[i])
        ELSE LET c == conversion(data[i].count, data[1].count)
             IN  IF c.ok
                 THEN Ok([stage |-> data[i].stage, count |-> data[i].count,
                          color |-> data[i].color, conversion |-> c.val])
                 ELSE c]

\* The width without its floor at min_width.
segment_width_unfloored(count, first_count) ==
    IF first_count > 0
    THEN LET q == truediv(count, first_count)
         IN  IF q.ok THEN Ok(rat_mul(max_width, q.val)) ELSE q
    ELSE Ok(max_width)

\* max_width * (count / first_count), at least min_width; max_width without a login
segment_width(count, first_count) ==
    IF first_count > 0
    THEN LET q == truediv(count, first_count)
         IN  IF q.ok THEN Ok(py_max(rat_mul(max_width, q.val), min_width)) ELSE q
    ELSE Ok(max_width)

\* One pass of the drawing loop: the rectangle, the count and, after the first
\* stage, the conversion label.
funnel_segment(data, idx) ==
    LET stage == data[idx]
        w == segment_width(stage.count, data[1].count)
    IN  IF ~w.ok THEN w
        ELSE IF idx > 1 /\ "conversion" \in DOMAIN stage
        THEN Ok([stage |-> stage.stage, width |-> w.val, count_text |-> stage.count,
                 conversion_text |-> format_1f(stage.conversion)])
        ELSE Ok([stage |-> stage.stage, width |-> w.val, count_text |-> stage.count])

\* The widths of one connecting trapezoid, computed in the second loop.
trapezoid_widths(data, idx) ==
    IF data[1].count > 0
    THEN LET q1 == truediv(data[idx].count, data[1].count)
             q2 == truediv(data[idx + 1].count, data[1].count)
         IN  IF ~q1.ok THEN q1
             ELSE IF ~q2.ok THEN q2
             ELSE Ok([width1 |-> py_max(rat_mul(max_width, q1.val), min_width),
                      width2 |-> py_max(rat_mul(max_width, q2.val), min_width)])
    ELSE Ok([width1 |-> max_width, width2 |-> max_width])

FirstError(results) ==
    results[CHOOSE i \in 1..Len(results) :
                ~results[i].ok /\ \A j \in 1..(i - 1) : results[j].ok].exc

AllOk(results) == \A i \in 1..Len(results) : results[i].ok

Values(results) == [i \in 1..Len(results) |-> results[i].val]

\* The whole script.
FunnelScript(df) ==
    LET c == getitem(df, s_EventType)
    IN  IF ~c.ok THEN Aborted(c.exc)
        ELSE LET e == count_contains(c.val, s_Export)
        IN  IF ~e.ok THEN Aborted(e.exc)
        ELSE LET stages == funnel_stages(count_eq(c.val, s_userLogin),
                                         count_eq(c.val, s_notesGenerated), e.val)
                 conv == with_conversions(stages)
        IN  IF ~AllOk(conv) THEN Aborted(FirstError(conv))
        ELSE LET data == Values(conv)
                 segs == [i \in 1..Len(data) |-> funnel_segment(data, i)]
                 traps == [i \in 1..(Len(data) - 1) |-> trapezoid_widths(data, i)]
        IN  IF ~AllOk(segs) THEN Aborted(FirstError(segs))
            ELSE IF ~AllOk(traps) THEN Aborted(FirstError(traps))
            ELSE [status |-> "rendered", funnel_data |-> data,
                  segments |-> Values(segs), trapezoids |-> Values(traps)]

\* ---------------------------------------------------- 03_top_users_table.py

\* .head(10)
TopN == 10

\* The group keys of df.groupby(column): the distinct values, missing ones
\* dropped, in ascending order.
RECURSIVE sorted_keys(_)
sorted_keys(S) ==
    IF S = {} THEN <<>>
    ELSE LET least == CHOOSE x \in S : \A y \in S \ {x} : str_lt(x, y)
         IN  <<least>> \o sorted_keys(S \ {least})

groupby_keys(col) == sorted_keys({col.values[r] : r \in 1..Len(col.values)} \ {NULL})

\* df.groupby('UserEmail').agg({'EventID': 'count'}): per user, the rows whose
\* EventID is not missing.
count_by_user(users, ids, key) ==
    Cardinality({r \in 1..Len(users.values) : users.values[r] = key /\ ids.values[r] # NULL})

\* df[mask].groupby('UserEmail').size(): a Series holding the users with a row
\* under the mask only.
size_by_user(users, mask) ==
    [key \in {users.values[r] : r \in {q \in 1..Len(users.values) : mask[q]}} \ {NULL} |->
        Cardinality({r \in 1..Len(users.values) : mask[r] /\ users.values[r] = key})]

\* user_metrics[name] = series: aligned on the index, NaN where the series has
\* no entry.
aligned(series, key) ==
    IF key \in DOMAIN series THEN [isna |-> FALSE, value |-> series[key]] ELSE [isna |-> TRUE]

\* .fillna(0).astype(int)
fillna_0(cell) == IF cell.isna THEN 0 ELSE cell.value

\* user_metrics before it is sorted: one row per group key, in key order.
user_metrics(users, types, ids, exports_mask) ==
    LET keys == groupby_keys(users)
        notes == size_by_user(users, [r \in 1..Len(types.values) |->
                                         types.values[r] = s_notesGenerated])
        exports == size_by_user(users, exports_mask)
    IN  [k \in 1..Len(keys) |->
            [UserEmail |-> keys[k],
             TotalEvents |-> fillna_0([isna |-> FALSE,
                                       value |-> count_by_user(users, ids, keys[k])]),
             NotesGenerated |-> fillna_0(aligned(notes, keys[k])),
             TotalExports |-> fillna_0(aligned(exports, keys[k]))]]

\* The orders in which ascending=True would leave the rows.
RECURSIVE sort_orders_ascending(_, _)
sort_orders_ascending(rows, left) ==
    IF left = {} THEN {<<>>}
    ELSE LET first == {i \in left : \A j \in left : rows[i].TotalEvents <= rows[j].TotalEvents}
         IN  UNION { {<<rows[i]>> \o rest : rest \in sort_orders_ascending(rows, left \ {i})} :
                     i \in first }

\* .sort_values('Total Events', ascending=False): the default kind, quicksort,
\* is not stable, so rows with one total may come out in any order.
RECURSIVE sort_orders(_, _)
sort_orders(rows, left) ==
    IF left = {} THEN {<<>>}
    ELSE LET first == {i \in left : \A j \in left : rows[i].TotalEvents >= rows[j].TotalEvents}
         IN  UNION { {<<rows[i]>> \o rest : rest \in sort_orders(rows, left \ {i})} :
                     i \in first }

\* All the rows: .head(10) left out.
head_all(rows) == rows

\* .head(10)
head(rows) == SubSeq(rows, 1, IF Len(rows) < TopN THEN Len(rows) ELSE TopN)

\* x.split('@')[0] if '@' in x else x
local_part(x) ==
    IF \E i \in 1..Len(x) : x[i] = "@"
    THEN SubSeq(x, 1, (CHOOSE i \in 1..Len(x) : x[i] = "@" /\ \A j \in 1..(i - 1) : x[j] # "@") - 1)
    ELSE x

\* The table that is drawn: User, Total Events, Notes Generated, Total Exports.
display_rows(rows) ==
    [i \in 1..Len(rows) |->
        <<local_part(rows[i].UserEmail), rows[i].TotalEvents,
          rows[i].NotesGenerated, rows[i].TotalExports>>]

\* The whole script, for each order the sort may produce.
TopUsersScript(df) ==
    LET users == getitem(df, s_UserEmail)
        ids == getitem(df, s_EventID)
        types == getitem(df, s_EventType)
    IN  IF ~users.ok THEN {Aborted(users.exc)}
        ELSE IF ~ids.ok THEN {Aborted(ids.exc)}
        ELSE IF ~types.ok THEN {Aborted(types.exc)}
        ELSE IF types.val.dtype # "object" THEN {Aborted("AttributeError")}
        ELSE LET mask == [r \in 1..Len(types.val.values) |->
                             str_contains_nocase(types.val.values[r], s_Export)]
                 metrics == user_metrics(users.val, types.val, ids.val, mask)
             IN  { [status |-> "rendered", user_metrics |-> head(sorted),
                    cellText |-> display_rows(head(sorted))] :
                   sorted \in sort_orders(metrics, 1..Len(metrics)) }

\* ---------------------------------------------------- 02_usage_over_time.py

\* .head(5)
TopEvents == 5

\* colors
colors == <<"#0078D4", "#107C10", "#FF8C00", "#5C2D91", "#008575">>

\* A timestamp is <<day, time of day>>; .dt.date keeps the day. A missing
\* timestamp (NaT) has no date.
dt_date(ts) == IF ts = NULL THEN NULL ELSE <<ts[1]>>

\* (date, type) group keys in ascending order, as groupby sorts them.
pair_lt(a, b) == str_lt(a[1], b[1]) \/ (a[1] = b[1] /\ str_lt(a[2], b[2]))

RECURSIVE sorted_pairs(_)
sorted_pairs(S) ==
    IF S = {} THEN <<>>
    ELSE LET least == CHOOSE x \in S : \A y \in S \ {x} : pair_lt(x, y)
         IN  <<least>> \o sorted_pairs(S \ {least})

\* df.groupby([df['EventDate'].dt.date, 'EventType']).size().reset_index(name='Count'):
\* one row per (date, type) met, rows with a missing date or type dropped.
daily_events(dates, types) ==
    LET n == Len(types.values)
        keys == sorted_pairs({ <<dt_date(dates.values[r]), types.values[r]>> :
                               r \in {q \in 1..n : dates.values[q] # NULL
                                                    /\ types.values[q] # NULL} })
    IN  [k \in 1..Len(keys) |->
            [EventDate |-> keys[k][1], EventType |-> keys[k][2],
             Count |-> Cardinality({r \in 1..n : /\ dt_date(dates.values[r]) = keys[k][1]
                                                 /\ types.values[r] = keys[k][2]})]]

\* The counts of value_counts(): per value met (missing ones dropped), its rows.
value_count(types, t) == Cardinality({r \in 1..Len(types.values) : types.values[r] = t})

\* The value_counts() index with the least frequent value first.
RECURSIVE value_counts_ascending(_, _)
value_counts_ascending(types, left) ==
    IF left = {} THEN {<<>>}
    ELSE LET first == {t \in left : \A u \in left : value_count(types, t) <= value_count(types, u)}
         IN  UNION { {<<t>> \o rest : rest \in value_counts_ascending(types, left \ {t})} :
                     t \in first }

\* The index of df['EventType'].value_counts(): the values by descending count;
\* values with one count may come in any order (the sort is not stable).
RECURSIVE value_counts(_, _)
value_counts(types, left) ==
    IF left = {} THEN {<<>>}
    ELSE LET first == {t \in left : \A u \in left : value_count(types, t) >= value_count(types, u)}
         IN  UNION { {<<t>> \o rest : rest \in value_counts(types, left \ {t})} :
                     t \in first }

\* .head(5).index.tolist()
head_events(index) == SubSeq(index, 1, IF Len(index) < TopEvents THEN Len(index) ELSE TopEvents)

\* The plotting loop: one line per top event type whose event_data is not empty.
\* (idx is 1-based here: colors[idx % len(colors)] of the script.)
plot_lines(daily, top_events) ==
    LET line(idx) ==
            LET event_data == SelectSeq(daily, LAMBDA row : row.EventType = top_events[idx])
            IN  [label |-> top_events[idx],
                 color |-> colors[((idx - 1) % Len(colors)) + 1],
                 x |-> [i \in 1..Len(event_data) |-> event_data[i].EventDate],
                 y |-> [i \in 1..Len(event_data) |-> event_data[i].Count]]
        all == [idx \in 1..Len(top_events) |-> line(idx)]
    IN  SelectSeq(all, LAMBDA l : l.x # <<>>)

\* The whole script, for each order value_counts may produce.
UsageOverTimeScript(df) ==
    LET dates == getitem(df, s_EventDate)
        types == getitem(df, s_EventType)
    IN  IF ~dates.ok THEN {Aborted(dates.exc)}
        ELSE IF ~types.ok THEN {Aborted(types.exc)}
        ELSE LET daily == daily_events(dates.val, types.val)
                 met == {types.val.values[r] : r \in 1..Len(types.val.values)} \ {NULL}
             IN  { [status |-> "rendered", daily_events |-> daily,
                    top_events |-> head_events(index),
                    lines |-> plot_lines(daily, head_events(index))] :
                   index \in value_counts(types.val, met) }

\* ---------------------------------------------------- 05_export_breakdown.py

\* 'pdfExport', 'clipboardExport', 'emailExport', 'csvExport', 'docxExport'
s_pdfExport == <<"p","d","f","E","x","p","o","r","t">>

s_clipboardExport == <<"c","l","i","p","b","o","a","r","d","E","x","p","o","r","t">>

s_emailExport == <<"e","m","a","i","l","E","x","p","o","r","t">>

s_csvExport == <<"c","s","v","E","x","p","o","r","t">>

s_docxExport == <<"d","o","c","x","E","x","p","o","r","t">>

\* ' Export'
s_space_Export == <<" ","E","x","p","o","r","t">>

\* export_type_mapping
export_type_mapping ==
    [x \in {s_pdfExport, s_clipboardExport, s_emailExport, s_csvExport, s_docxExport} |->
        CASE x = s_pdfExport -> <<"P","D","F"," ","E","x","p","o","r","t">>
          [] x = s_clipboardExport -> <<"C","l","i","p","b","o","a","r","d"," ","E","x","p","o","r","t">>
          [] x = s_emailExport -> <<"E","m","a","i","l"," ","E","x","p","o","r","t">>
          [] x = s_csvExport -> <<"C","S","V"," ","E","x","p","o","r","t">>
          [] x = s_docxExport -> <<"D","O","C","X"," ","E","x","p","o","r","t">>]

\* str.upper() on one character.
upper_char(c) ==
    IF \E i \in 1..26 : Lowers[i] = c
    THEN Uppers[CHOOSE i \in 1..26 : Lowers[i] = c]
    ELSE c

\* A cased character: a letter.
is_cased(c) == \E i \in 1..26 : Uppers[i] = c \/ Lowers[i] = c

\* x.replace(old, new): every occurrence of old, left to right, case-sensitive.
RECURSIVE str_replace(_, _, _)
str_replace(x, old, new) ==
    IF x = <<>> THEN <<>>
    ELSE IF occurs_at(x, old, 0, FALSE)
    THEN new \o str_replace(SubSeq(x, Len(old) + 1, Len(x)), old, new)
    ELSE <<Head(x)>> \o str_replace(Tail(x), old, new)

\* x.title(): a letter after a letter is lower-cased, any other letter is
\* upper-cased.
str_title(x) ==
    [i \in 1..Len(x) |->
        IF ~is_cased(x[i]) THEN x[i]
        ELSE IF i > 1 /\ is_cased(x[i - 1]) THEN lower_char(x[i])
        ELSE upper_char(x[i])]

\* lambda x: export_type_mapping.get(x, x.replace('Export', ' Export').title())
display_name(x) ==
    IF x \in DOMAIN export_type_mapping THEN export_type_mapping[x]
    ELSE str_title(str_replace(x, s_Export, s_space_Export))

RECURSIVE sum(_)
sum(q) == IF q = <<>> THEN 0 ELSE Head(q) + sum(Tail(q))

\* The share of one slice without the factor 100.
pie_fraction(count, total) == Rat(count, total)

\* The number autopct formats for one slice: 100 * x / sum(x).
pie_percent(count, total) == rat_mul(Rat(count, total), <<100, 1>>)

\* ax.pie(export_counts.values, labels=export_counts.index, autopct='%1.1f%%',
\* colors=colors[:len(export_counts)], ...): one wedge per count, its label, its
\* percentage as text and its colour (the colours are taken in turn).
pie(values, labels) ==
    [i \in 1..Len(values) |->
        [label |-> labels[i], value |-> values[i],
         percent |-> pie_percent(values[i], sum(values)),
         autotext |-> format_1f(pie_percent(values[i], sum(values))),
         color |-> LET given == IF Len(values) < Len(colors) THEN Len(values) ELSE Len(colors)
                   IN  colors[((i - 1) % given) + 1]]]

\* The whole script, for each order value_counts may produce.
ExportBreakdownScript(df) ==
    LET types == getitem(df, s_EventType)
    IN  IF ~types.ok THEN {Aborted(types.exc)}
        ELSE IF types.val.dtype # "object" THEN {Aborted("AttributeError")}
        ELSE LET kept == SelectSeq(types.val.values,
                                   LAMBDA c : str_contains_nocase(c, s_Export))
                 export_events == [dtype |-> "object", values |-> kept]
                 met == {kept[r] : r \in 1..Len(kept)}
             IN  { LET export_counts == [i \in 1..Len(index) |->
                                            value_count(export_events, index[i])]
                       names == [i \in 1..Len(index) |-> display_name(index[i])]
                   IN  [status |-> "rendered", index |-> index,
                        wedges |-> pie(export_counts, names),
                        total_exports |-> sum(export_counts)] :
                   index \in value_counts(export_events, met) }

\* ------------------------------------------------------------ the datasets

\* Sequences over S of length at most n.
RECURSIVE SeqsUpTo(_, _)
SeqsUpTo(S, n) ==
    IF n = 0 THEN {<<>>}
    ELSE LET shorter == SeqsUpTo(S, n - 1)
         IN  shorter \cup {Append(q, x) : q \in {t \in shorter : Len(t) = n - 1}, x \in S}

\* 'a@x', 'b@x'
u_a == <<"a","@","x">>

u_b == <<"b","@","x">>

\* 'tourStarted', 'tourCompleted'
s_tourStarted == <<"t","o","u","r","S","t","a","r","t","e","d">>

s_tourCompleted == <<"t","o","u","r","C","o","m","p","l","e","t","e","d">>

\* One event of the log: who, what, and the tour action of a tour event.
Event(u, t, a) == [user |-> u, type |-> t, tour |-> a]

KpiEvents ==
    { Event(u, k[1], k[2]) :
        u \in {u_a, u_b},
        k \in { <<s_notesGenerated, NULL>>, <<s_pdfExport, NULL>>,
                <<s_tourStarted, s_started>>, <<s_tourCompleted, s_completed>>,
                <<NULL, NULL>> } }

FunnelEvents ==
    { Event(NULL, t, NULL) : t \in {s_userLogin, s_notesGenerated, s_pdfExport, NULL} }

Column(name, dtype, role) == [name |-> name, dtype |-> dtype, role |-> role]

\* The column layouts a visual can be handed: the view's own names, lower-case
\* names, alias names, a missing column, no known column, an EventType column of
\* numbers, and a second column that differs from UserEmail by case only.
KpiLayouts ==
    { << Column(s_UserEmail, "object", "user"), Column(s_EventType, "object", "type"),
         Column(s_TourAction, "object", "tour") >>,
      << Column(s_useremail, "object", "user"), Column(s_eventtype, "object", "type"),
         Column(s_touraction, "object", "tour") >>,
      << Column(s_Email, "object", "user"), Column(s_Type, "object", "type"),
         Column(s_Action, "object", "tour") >>,
      << Column(s_UserEmail, "object", "user"), Column(s_EventType, "object", "type") >>,
      << Column(<<"S","e","s","s","i","o","n","I","D">>, "object", "const") >>,
      << Column(s_UserEmail, "object", "user"), Column(s_EventType, "int64", "number"),
         Column(s_TourAction, "object", "tour") >>,
      << Column(s_UserEmail, "object", "user"), Column(<<"U","S","E","R","E","M","A","I","L">>, "object", "const"),
         Column(s_EventType, "object", "type"), Column(s_TourAction, "object", "tour") >> }

FunnelLayouts == { << Column(s_EventType, "object", "type") >> }

Cell(role, ev) ==
    CASE role = "user" -> ev.user
      [] role = "type" -> ev.type
      [] role = "tour" -> ev.tour
      [] role = "number" -> <<"7">>
      [] role = "id" -> <<"1">>
      [] role = "date" -> ev.date
      [] OTHER -> <<"s">>

\* The DataFrame of the events under a column layout.
Frame(layout, events) ==
    [columns |-> [i \in 1..Len(layout) |-> layout[i].name],
     dtypes |-> [i \in 1..Len(layout) |-> layout[i].dtype],
     rows |-> [r \in 1..Len(events) |->
                  [i \in 1..Len(layout) |-> Cell(layout[i].role, events[r])]]]

KpiTables == { Frame(l, ev) : l \in KpiLayouts, ev \in SeqsUpTo(KpiEvents, MaxKpiRows) }

FunnelTables ==
    { Frame(l, ev) : l \in FunnelLayouts, ev \in SeqsUpTo(FunnelEvents, MaxFunnelRows) }

\* 'email'
s_email == <<"e","m","a","i","l">>

\* Most columns, and most aliases, of a call of find_column on its own.
MaxColumns == 2

MaxAliases == 2

\* 'Email', 'EMAIL', 'email', 'User', 'Emails'
ColumnNames ==
    {s_Email, <<"E","M","A","I","L">>, s_email, s_User, <<"E","m","a","i","l","s">>}

AliasNames == {s_Email, s_email, s_User, s_UserEmail}

\* A table's column names are distinct.
Distinct(q) == \A i, j \in 1..Len(q) : q[i] = q[j] => i = j

\* Tables without rows, for the resolver alone: only the names matter to it.
ResolverTables ==
    { [columns |-> names, dtypes |-> [i \in 1..Len(names) |-> "object"], rows |-> <<>>] :
        names \in {q \in SeqsUpTo(ColumnNames, MaxColumns) : Distinct(q)} }

ResolverAliases == SeqsUpTo(AliasNames, MaxAliases) \cup {user_names}

\* Longest table of the all-sequences family handed to the top-users script, and
\* most users of its many-users family.
MaxTopRows == 3

MaxUsers == 11

\* 'c': an identity without '@'
u_c == <<"c">>

\* 'EXPORT_CSV'
s_EXPORT_CSV == <<"E","X","P","O","R","T","_","C","S","V">>

TopLayouts ==
    { << Column(s_UserEmail, "object", "user"), Column(s_EventType, "object", "type"),
         Column(s_EventID, "object", "id") >>,
      << Column(s_UserEmail, "object", "user"), Column(s_EventType, "object", "type") >> }

TopUsersEvents ==
    { Event(u, t, NULL) : u \in {u_a, u_b, u_c},
                          t \in {s_notesGenerated, s_EXPORT_CSV, s_userLogin} }
      \cup {Event(NULL, s_notesGenerated, NULL)}

\* The user of index k: 'a@x', 'b@x', ...
UserName(k) == <<Lowers[k], "@", "x">>

EventCycle == <<s_notesGenerated, s_pdfExport, s_userLogin>>

\* The rows of user k in a many-users table: k of them, one more for the user
\* `extra`, of event types taken in turn.
UserBlock(k, extra) ==
    [r \in 1..(k + IF k = extra THEN 1 ELSE 0) |->
        Event(UserName(k), EventCycle[((k + r) % 3) + 1], NULL)]

RECURSIVE Blocks(_, _)
Blocks(order, extra) ==
    IF order = <<>> THEN <<>> ELSE UserBlock(Head(order), extra) \o Blocks(Tail(order), extra)

\* Many-users tables: n users, user k with k rows (k + 1 for one of them, so that
\* two users may tie), met in ascending or in descending order of their names.
ManyUsersEvents ==
    { Blocks(IF descending THEN [i \in 1..n |-> n + 1 - i] ELSE [i \in 1..n |-> i], extra) :
        n \in 0..MaxUsers, extra \in 0..MaxUsers, descending \in BOOLEAN }

TopTables ==
    { Frame(l, ev) : l \in TopLayouts, ev \in SeqsUpTo(TopUsersEvents, MaxTopRows) }
      \cup { Frame(l, ev) : l \in {x \in TopLayouts : Len(x) = 3}, ev \in ManyUsersEvents }

\* Longest table of the all-sequences family handed to the usage script, and
\* most event types of its many-types family.
MaxUsageRows == 3

MaxTypes == 6

\* Timestamps: two on day 1, one on day 2.
ts_1m == <<"1", "m">>

ts_1n == <<"1", "n">>

ts_2m == <<"2", "m">>

\* An event with its timestamp.
DatedEvent(t, ts) == [user |-> NULL, type |-> t, tour |-> NULL, date |-> ts]

UsageLayouts ==
    { << Column(s_EventDate, "datetime64", "date"), Column(s_EventType, "object", "type") >>,
      << Column(s_EventType, "object", "type") >> }

UsageEvents ==
    { DatedEvent(t, ts) : t \in {s_notesGenerated, s_userLogin}, ts \in {ts_1m, ts_1n, ts_2m, NULL} }
      \cup {DatedEvent(NULL, ts_1m)}

TypeNames == <<s_notesGenerated, s_userLogin, s_pdfExport, s_csvExport,
               s_emailExport, s_tourStarted, s_tourCompleted, s_EXPORT_CSV>>

TimeCycle == <<ts_1m, ts_2m, ts_1n>>

\* The rows of type k in a many-types table: k of them (one more for the type
\* `extra`), on the timestamps in turn, or all without a date for `undated`.
TypeBlock(k, extra, undated) ==
    [r \in 1..(k + IF k = extra THEN 1 ELSE 0) |->
        DatedEvent(TypeNames[k], IF k = undated THEN NULL ELSE TimeCycle[(r % 3) + 1])]

RECURSIVE TypeBlocks(_, _, _)
TypeBlocks(order, extra, undated) ==
    IF order = <<>> THEN <<>>
    ELSE TypeBlock(Head(order), extra, undated) \o TypeBlocks(Tail(order), extra, undated)

ManyTypesEvents ==
    { TypeBlocks(IF descending THEN [i \in 1..n |-> n + 1 - i] ELSE [i \in 1..n |-> i],
                 extra, undated) :
        n \in 0..MaxTypes, extra \in 0..MaxTypes, undated \in 0..MaxTypes,
        descending \in BOOLEAN }

UsageTables ==
    { Frame(l, ev) : l \in UsageLayouts, ev \in SeqsUpTo(UsageEvents, MaxUsageRows) }
      \cup { Frame(l, ev) : l \in {x \in UsageLayouts : Len(x) = 2}, ev \in ManyTypesEvents }

\* Longest table of the all-sequences family handed to the breakdown script, and
\* most rows of one export type in its counted family.
MaxBreakdownRows == 2

MaxExports == 7

\* 'htmlExport'
s_htmlExport == <<"h","t","m","l","E","x","p","o","r","t">>

BreakdownLayouts == { << Column(s_EventType, "object", "type") >> }

BreakdownEvents ==
    { Event(NULL, t, NULL) :
        t \in {s_pdfExport, s_csvExport, s_htmlExport, s_EXPORT_CSV, s_notesGenerated, NULL} }

\* n rows of one event type.
Repeat(t, n) == [r \in 1..n |-> Event(NULL, t, NULL)]

\* Counted tables: so many pdf exports, csv exports and html exports, among
\* other events.
CountedExports ==
    { Repeat(s_notesGenerated, other) \o Repeat(s_pdfExport, pdf)
        \o Repeat(s_csvExport, csv) \o Repeat(s_htmlExport, html) :
        pdf \in 0..MaxExports, csv \in 0..MaxExports, html \in 0..1, other \in 0..1 }

BreakdownTables ==
    { Frame(l, ev) : l \in BreakdownLayouts,
                     ev \in SeqsUpTo(BreakdownEvents, MaxBreakdownRows) \cup CountedExports }

\* ------------------------------------------------------------- the actions

\* The host runs 01_kpi_cards.py on the dataset.
KpiCards ==
    /\ kpi = NotRun
    /\ kpi' = KpiCardsScript(dataset)
    /\ UNCHANGED <<dataset, kpi_v2, funnel, usage, top_users, breakdown,
                   possible_names, found>>

\* The host runs 01_kpi_cards_v2.py on the dataset.
KpiCardsV2 ==
    /\ kpi_v2 = NotRun
    /\ kpi_v2' = KpiCardsV2Script(dataset)
    /\ UNCHANGED <<dataset, kpi, funnel, usage, top_users, breakdown,
                   possible_names, found>>

\* The host runs 04_feature_adoption_funnel.py on the dataset.
FeatureAdoptionFunnel ==
    /\ funnel = NotRun
    /\ funnel' = FunnelScript(dataset)
    /\ UNCHANGED <<dataset, kpi, kpi_v2, usage, top_users, breakdown,
                   possible_names, found>>

\* One call find_column(df, possible_names).
FindColumn ==
    /\ found = NotRun
    /\ found' = [status |-> "returned", result |-> find_column(dataset, possible_names)]
    /\ UNCHANGED <<dataset, kpi, kpi_v2, funnel, usage, top_users, breakdown,
                   possible_names>>

\* The host runs 03_top_users_table.py on the dataset.
TopUsersTable ==
    /\ top_users = NotRun
    /\ top_users' \in TopUsersScript(dataset)
    /\ UNCHANGED <<dataset, kpi, kpi_v2, funnel, usage, breakdown, possible_names, found>>

\* The host runs 02_usage_over_time.py on the dataset.
UsageOverTime ==
    /\ usage = NotRun
    /\ usage' \in UsageOverTimeScript(dataset)
    /\ UNCHANGED <<dataset, kpi, kpi_v2, funnel, top_users, breakdown, possible_names, found>>

\* The host runs 05_export_breakdown.py on the dataset.
ExportBreakdown ==
    /\ breakdown = NotRun
    /\ breakdown' \in ExportBreakdownScript(dataset)
    /\ UNCHANGED <<dataset, kpi, kpi_v2, funnel, usage, top_users, possible_names, found>>

NothingRun ==
    /\ kpi = NotRun /\ kpi_v2 = NotRun /\ funnel = NotRun /\ usage = NotRun
    /\ top_users = NotRun /\ breakdown = NotRun
    /\ found = NotRun

\* The KPI cards and the funnel, on one injected dataset.
Init ==
    /\ dataset \in KpiTables \cup FunnelTables
    /\ possible_names = <<>>
    /\ NothingRun

Next == KpiCards \/ KpiCardsV2 \/ FeatureAdoptionFunnel

Spec == Init /\ [][Next]_vars

\* The column resolver alone, on every table and alias list of the bounds.
InitFindColumn ==
    /\ dataset \in ResolverTables
    /\ possible_names \in ResolverAliases
    /\ NothingRun

NextFindColumn == FindColumn

SpecFindColumn == InitFindColumn /\ [][NextFindColumn]_vars

\* The top-users table alone.
InitTopUsers ==
    /\ dataset \in TopTables
    /\ possible_names = <<>>
    /\ NothingRun

NextTopUsers == TopUsersTable

SpecTopUsers == InitTopUsers /\ [][NextTopUsers]_vars

\* The usage-over-time chart alone.
InitUsage ==
    /\ dataset \in UsageTables
    /\ possible_names = <<>>
    /\ NothingRun

NextUsage == UsageOverTime

SpecUsage == InitUsage /\ [][NextUsage]_vars

\* The export breakdown alone.
InitBreakdown ==
    /\ dataset \in BreakdownTables
    /\ possible_names = <<>>
    /\ NothingRun

NextBreakdown == ExportBreakdown

SpecBreakdown == InitBreakdown /\ [][NextBreakdown]_vars

\* ---------------------------------------------------- what the claims read

\* The cells of the column named `name` (none when the table has no such column).
CellsOf(df, name) ==
    IF \E i \in 1..Len(df.columns) : df.columns[i] = name
    THEN LET i == CHOOSE i \in 1..Len(df.columns) : df.columns[i] = name
         IN  [r \in 1..Len(df.rows) |-> df.rows[r][i]]
    ELSE <<>>

\* How many cells of a column satisfy a condition.
HowMany(cells, P(_)) == Cardinality({r \in 1..Len(cells) : P(cells[r])})

IsStarted(c) == c = s_started

IsCompleted(c) == c = s_completed

IsLogin(c) == c = s_userLogin

IsNotes(c) == c = s_notesGenerated

IsExport(c) == str_contains_nocase(c, s_Export)

\* Some column matches some alias, ignoring case.
Resolves(df, names) ==
    \E i \in 1..Len(df.columns), j \in 1..Len(names) : lower(df.columns[i]) = lower(names[j])

DtypeOf(df, name) == df.dtypes[CHOOSE i \in 1..Len(df.columns) : df.columns[i] = name]

\* The stage counts of the funnel, counted on the table.
StageCount(df, i) ==
    HowMany(CellsOf(df, s_EventType),
            LAMBDA c : IF i = 1 THEN IsLogin(c) ELSE IF i = 2 THEN IsNotes(c) ELSE IsExport(c))

\* ------------------------------------------------------------------ claims

\* C1: the tour-completion rate of both KPI scripts is 0 when no row has
\* TourAction 'started', the conversion of funnel stages 2 and 3 is 0 when no row
\* has EventType 'userLogin' (so for every table without rows), and no script
\* ever ends in a division error.
C1_ZeroDenominator ==
    /\ kpi.status = "error" => kpi.error # "ZeroDivisionError"
    /\ kpi_v2.status # "error"
    /\ funnel.status = "error" => funnel.error # "ZeroDivisionError"
    /\ ( kpi.status = "rendered" /\ HowMany(CellsOf(dataset, s_TourAction), IsStarted) = 0 )
         => kpi.tour_completion_rate = Zero /\ kpi.cards[4].text = 0
    /\ ( kpi_v2.status = "rendered"
         /\ HowMany(CellsOf(dataset, kpi_v2.tour_action_col), IsStarted) = 0 )
         => kpi_v2.tour_completion_rate = Zero /\ kpi_v2.cards[4].text = 0
    /\ ( funnel.status = "rendered" /\ StageCount(dataset, 1) = 0 )
         => \A i \in 2..3 : funnel.funnel_data[i].conversion = Zero
                            /\ funnel.segments[i].conversion_text = 0

\* C1 witness: the three scripts have rendered a table with a completed tour but
\* no started one, and with notes but no login.
C1_Witness ==
    /\ kpi.status = "rendered" /\ kpi_v2.status = "rendered" /\ funnel.status = "rendered"
    /\ HowMany(CellsOf(dataset, s_TourAction), IsStarted) = 0
    /\ HowMany(CellsOf(dataset, s_TourAction), IsCompleted) > 0
    /\ StageCount(dataset, 1) = 0
    /\ StageCount(dataset, 2) > 0

\* No column after the one named `name` has the same name ignoring case.
LastOfItsCase(df, name) ==
    \A i, j \in 1..Len(df.columns) :
        (df.columns[i] = name /\ lower(df.columns[j]) = lower(name)) => j <= i

\* The aliases that some column equals ignoring case.
MatchingAliases(df, names) ==
    {j \in 1..Len(names) : \E i \in 1..Len(df.columns) : lower(df.columns[i]) = lower(names[j])}

\* The result is a column equal, ignoring case, to the first alias that any
\* column equals ignoring case; None when there is none.
FirstAliasWins ==
    LET hits == MatchingAliases(dataset, possible_names)
    IN  IF hits = {} THEN found.result = None
        ELSE /\ \E i \in 1..Len(dataset.columns) : dataset.columns[i] = found.result
             /\ lower(found.result)
                  = lower(possible_names[CHOOSE j \in hits : \A k \in hits : j <= k])

\* The example: the aliases of the user column, a column named 'Email', and no
\* column matching one of the three aliases before 'Email'.
EmailExample ==
    /\ possible_names = user_names
    /\ \E i \in 1..Len(dataset.columns) : dataset.columns[i] = s_Email
    /\ \A j \in MatchingAliases(dataset, possible_names) : j >= 4

\* C2 as claimed: first alias in list order wins, by exact match ignoring case,
\* None without a match; and in the example the result is 'Email'.
C2_Original ==
    found.status = "returned" =>
      /\ FirstAliasWins
      /\ EmailExample => found.result = s_Email

\* C2 amended: the same, the example holding when 'Email' is the last column
\* whose name is 'email' ignoring case (of several such columns the last is
\* returned).
C2_FirstAliasWins ==
    found.status = "returned" =>
      /\ FirstAliasWins
      /\ (EmailExample /\ LastOfItsCase(dataset, s_Email)) => found.result = s_Email
      /\ EmailExample =>
           /\ lower(found.result) = s_email
           /\ \A i, j \in 1..Len(dataset.columns) :
                (dataset.columns[i] = found.result /\ lower(dataset.columns[j]) = s_email)
                  => j <= i

\* C2 witness: the example, with a column 'User' matching a later alias too.
C2_Witness ==
    /\ found.status = "returned"
    /\ EmailExample
    /\ dataset.columns = <<s_User, s_Email>>
    /\ found.result = s_Email

\* C3: the robust KPI script always renders its four cards; a metric whose column
\* does not resolve, or whose computation raises (the .str accessor on a column of
\* numbers), is 0, and every other metric has the value counted on its own column.
C3_MetricIsolation ==
    kpi_v2 # NotRun =>
      /\ kpi_v2.status = "rendered"
      /\ Len(kpi_v2.cards) = 4
      /\ kpi_v2.cards[1].text = kpi_v2.total_users
      /\ kpi_v2.cards[2].text = kpi_v2.notes_generated
      /\ kpi_v2.cards[3].text = kpi_v2.total_exports
      /\ IF Resolves(dataset, user_names)
         THEN kpi_v2.total_users
                = Cardinality({c \in {CellsOf(dataset, kpi_v2.user_col)[r] :
                                        r \in 1..Len(dataset.rows)} : c # NULL})
         ELSE kpi_v2.total_users = 0
      /\ IF Resolves(dataset, event_type_names)
         THEN /\ kpi_v2.notes_generated
                   = HowMany(CellsOf(dataset, kpi_v2.event_type_col), IsNotes)
              /\ kpi_v2.total_exports
                   = IF DtypeOf(dataset, kpi_v2.event_type_col) = "object"
                     THEN HowMany(CellsOf(dataset, kpi_v2.event_type_col), IsExport)
                     ELSE 0
         ELSE kpi_v2.notes_generated = 0 /\ kpi_v2.total_exports = 0
      /\ IF Resolves(dataset, tour_action_names)
         THEN LET started == HowMany(CellsOf(dataset, kpi_v2.tour_action_col), IsStarted)
                  completed == HowMany(CellsOf(dataset, kpi_v2.tour_action_col), IsCompleted)
              IN  kpi_v2.tour_completion_rate[1] * started
                    = 100 * completed * kpi_v2.tour_completion_rate[2]
                  \/ (started = 0 /\ kpi_v2.tour_completion_rate = Zero)
         ELSE kpi_v2.tour_completion_rate = Zero

\* C3 witness: the export count raised (EventType holds numbers) and is 0, while
\* the users and the tour completion are counted.
C3_Witness ==
    /\ kpi_v2.status = "rendered"
    /\ Resolves(dataset, event_type_names)
    /\ DtypeOf(dataset, kpi_v2.event_type_col) = "int64"
    /\ kpi_v2.total_exports = 0
    /\ kpi_v2.total_users = 2
    /\ kpi_v2.tour_completion_rate = <<100, 1>>

\* The four metrics of the two KPI scripts agree.
SameMetrics ==
    /\ kpi_v2.total_users = kpi.total_users
    /\ kpi_v2.notes_generated = kpi.notes_generated
    /\ kpi_v2.total_exports = kpi.total_exports
    /\ kpi_v2.tour_completion_rate = kpi.tour_completion_rate

\* C4 as claimed: on every table on which the original KPI script completes, the
\* robust script computes the same four metrics.
C4_Original ==
    (kpi.status = "rendered" /\ kpi_v2.status = "rendered") => SameMetrics

\* C4 amended: the same, on the tables in which no later column has the name
\* UserEmail, EventType or TourAction in another case.
C4_SameMetrics ==
    ( /\ kpi.status = "rendered" /\ kpi_v2.status = "rendered"
      /\ LastOfItsCase(dataset, s_UserEmail)
      /\ LastOfItsCase(dataset, s_EventType)
      /\ LastOfItsCase(dataset, s_TourAction) ) => SameMetrics

\* C4 witness: both scripts have rendered a table with two users, an export and
\* a completed tour out of one started.
C4_Witness ==
    /\ kpi.status = "rendered" /\ kpi_v2.status = "rendered"
    /\ LastOfItsCase(dataset, s_UserEmail)
    /\ kpi.total_users = 2
    /\ kpi_v2.total_users = 2

\* C8: the conversion of stages 2 and 3 is count(stage) / count(stage 1) * 100,
\* shown with one decimal place; stage 1 carries no conversion and shows none.
C8_ConversionFromFirstStage ==
    funnel.status = "rendered" =>
      /\ "conversion" \notin DOMAIN funnel.funnel_data[1]
      /\ "conversion_text" \notin DOMAIN funnel.segments[1]
      /\ \A i \in 2..3 :
           LET conv == funnel.funnel_data[i].conversion
               shown == funnel.segments[i].conversion_text
           IN  /\ StageCount(dataset, 1) > 0
                    => conv[1] * StageCount(dataset, 1) = 100 * StageCount(dataset, i) * conv[2]
               \* the label is the conversion to the nearest tenth
               /\ 20 * conv[1] - 2 * shown * conv[2] <= conv[2]
               /\ 2 * shown * conv[2] - 20 * conv[1] <= conv[2]

\* C8 witness: a funnel with 2 logins, 1 note and 1 export: 50.0% and 50.0%,
\* where the export is 100% of the stage before it.
C8_Witness ==
    /\ funnel.status = "rendered"
    /\ StageCount(dataset, 1) = 2 /\ StageCount(dataset, 2) = 1 /\ StageCount(dataset, 3) = 1
    /\ funnel.segments[2].conversion_text = 500
    /\ funnel.segments[3].conversion_text = 500

\* C9: stage 1 is drawn 0.8 wide; with a login, every stage is drawn
\* max(0.8 * count / count(stage 1), 0.3) wide; stage 2 is strictly narrower than
\* stage 1 when count(stage 1) > count(stage 2) > 0; each connecting trapezoid
\* has the widths of the two rectangles it joins.
C9_Widths ==
    funnel.status = "rendered" =>
      /\ funnel.segments[1].width = <<4, 5>>
      /\ StageCount(dataset, 1) > 0 =>
           \A i \in 1..3 :
             LET share == Rat(4 * StageCount(dataset, i), 5 * StageCount(dataset, 1))
             IN  funnel.segments[i].width = IF rat_lt(share, <<3, 10>>) THEN <<3, 10>> ELSE share
      /\ ( StageCount(dataset, 1) > StageCount(dataset, 2) /\ StageCount(dataset, 2) > 0 )
           => rat_lt(funnel.segments[2].width, funnel.segments[1].width)
      /\ \A i \in 1..2 :
           /\ funnel.trapezoids[i].width1 = funnel.segments[i].width
           /\ funnel.trapezoids[i].width2 = funnel.segments[i + 1].width

\* C9 witness: 3 logins and 1 note: 0.8 / 3 is under the floor, so stage 2 is
\* drawn 0.3 wide, narrower than stage 1.
C9_Witness ==
    /\ funnel.status = "rendered"
    /\ StageCount(dataset, 1) = 3 /\ StageCount(dataset, 2) = 1
    /\ funnel.segments[2].width = <<3, 10>>
    /\ funnel.trapezoids[1].width2 = <<3, 10>>

\* The rows of the table whose UserEmail is u.
RowsOf(df, u) == {r \in 1..Len(df.rows) : CellsOf(df, s_UserEmail)[r] = u}

\* The users of the table.
UsersOf(df) == {CellsOf(df, s_UserEmail)[r] : r \in 1..Len(df.rows)} \ {NULL}

\* The first row on which u is met.
FirstRow(df, u) == CHOOSE r \in RowsOf(df, u) : \A q \in RowsOf(df, u) : r <= q

\* The drawn rows are in descending order of Total Events.
DescendingTotals ==
    \A i, j \in 1..Len(top_users.user_metrics) :
        i < j => top_users.user_metrics[i].TotalEvents >= top_users.user_metrics[j].TotalEvents

\* C5 as claimed: the rows are in descending order of Total Events, and users
\* with one total are in the order in which the table first meets them.
C5_Original ==
    top_users.status = "rendered" =>
      /\ DescendingTotals
      /\ \A i, j \in 1..Len(top_users.user_metrics) :
           ( i < j /\ top_users.user_metrics[i].TotalEvents
                        = top_users.user_metrics[j].TotalEvents )
             => FirstRow(dataset, top_users.user_metrics[i].UserEmail)
                  < FirstRow(dataset, top_users.user_metrics[j].UserEmail)

\* C5 amended: the rows are in descending order of Total Events (the order of
\* users with one total is not the order in which they are met).
C5_Descending ==
    top_users.status = "rendered" =>
      /\ DescendingTotals
      /\ \A i \in 1..Len(top_users.cellText) :
           top_users.cellText[i][2] = top_users.user_metrics[i].TotalEvents

\* C5 witness: three drawn users, the first with more events than the two
\* others, who tie.
C5_Witness ==
    /\ top_users.status = "rendered"
    /\ Len(top_users.user_metrics) = 3
    /\ top_users.user_metrics[1].TotalEvents > top_users.user_metrics[2].TotalEvents
    /\ top_users.user_metrics[2].TotalEvents = top_users.user_metrics[3].TotalEvents

TypesOf(df) == {CellsOf(df, s_EventType)[r] : r \in 1..Len(df.rows)} \ {NULL}

TypeRows(df, t) == {r \in 1..Len(df.rows) : CellsOf(df, s_EventType)[r] = t}

\* The event types with a row that has a date.
DatedTypes(df) ==
    {t \in TypesOf(df) : \E r \in TypeRows(df, t) : CellsOf(df, s_EventDate)[r] # NULL}

\* The labels of the plotted lines.
Plotted == {usage.lines[i].label : i \in 1..Len(usage.lines)}

\* At most 5 lines, one per label.
AtMostFive == Len(usage.lines) <= 5 /\ Cardinality(Plotted) = Len(usage.lines)

\* With 6 event types, no two with one count, the least frequent has no line.
SixthNotPlotted ==
    ( /\ Cardinality(TypesOf(dataset)) = 6
      /\ \A t, u \in TypesOf(dataset) :
            t # u => Cardinality(TypeRows(dataset, t)) # Cardinality(TypeRows(dataset, u)) )
      => \A t \in TypesOf(dataset) :
            (\A u \in TypesOf(dataset) :
                Cardinality(TypeRows(dataset, t)) <= Cardinality(TypeRows(dataset, u)))
              => t \notin Plotted

\* C7 as claimed: the lines are the 5 most frequent event types (all of them
\* when there are fewer): at most 5 lines, as many as min(5, types), no type
\* without a line has strictly more rows than one with a line, and of 6 types
\* with distinct counts the least frequent has no line.
C7_Original ==
    usage.status = "rendered" =>
      /\ AtMostFive
      /\ Plotted \subseteq TypesOf(dataset)
      /\ Len(usage.lines) = IF Cardinality(TypesOf(dataset)) < 5
                            THEN Cardinality(TypesOf(dataset)) ELSE 5
      /\ \A t \in TypesOf(dataset) \ Plotted : \A p \in Plotted :
            Cardinality(TypeRows(dataset, t)) <= Cardinality(TypeRows(dataset, p))
      /\ SixthNotPlotted

\* C7 amended: the lines are those of the 5 most frequent event types that have
\* a row with a date: a type whose rows all lack EventDate is among the 5 by its
\* row count and has no line. So the count of lines and the comparison hold for
\* the types with a dated row, and as claimed when every row has a date.
C7_TopFive ==
    usage.status = "rendered" =>
      /\ AtMostFive
      /\ Plotted \subseteq DatedTypes(dataset)
      /\ Plotted = {usage.top_events[i] : i \in 1..Len(usage.top_events)}
                     \cap DatedTypes(dataset)
      /\ Len(usage.top_events) = IF Cardinality(TypesOf(dataset)) < 5
                                 THEN Cardinality(TypesOf(dataset)) ELSE 5
      /\ \A t \in TypesOf(dataset) :
            \A i \in 1..Len(usage.top_events) :
               (\A j \in 1..Len(usage.top_events) : usage.top_events[j] # t)
                 => Cardinality(TypeRows(dataset, t))
                      <= Cardinality(TypeRows(dataset, usage.top_events[i]))
      /\ \A t \in DatedTypes(dataset) \ Plotted : \A p \in Plotted :
            Cardinality(TypeRows(dataset, t)) <= Cardinality(TypeRows(dataset, p))
      /\ DatedTypes(dataset) = TypesOf(dataset) =>
            Len(usage.lines) = IF Cardinality(TypesOf(dataset)) < 5
                               THEN Cardinality(TypesOf(dataset)) ELSE 5
      /\ SixthNotPlotted

\* C7 witness: 6 event types of distinct counts, on 2 dates, every row dated: 5
\* lines, none for the least frequent type.
C7_Witness ==
    /\ usage.status = "rendered"
    /\ Cardinality(TypesOf(dataset)) = 6
    /\ DatedTypes(dataset) = TypesOf(dataset)
    /\ \A t, u \in TypesOf(dataset) :
          t # u => Cardinality(TypeRows(dataset, t)) # Cardinality(TypeRows(dataset, u))
    /\ Len(usage.lines) = 5
    /\ s_notesGenerated \notin Plotted
    /\ \E i \in 1..5 : Len(usage.lines[i].x) = 2

\* The rows kept by the export filter.
ExportRows(df) == {r \in 1..Len(df.rows) : IsExport(CellsOf(df, s_EventType)[r])}

RECURSIVE SumOver(_, _)
SumOver(f, n) == IF n = 0 THEN 0 ELSE f[n] + SumOver(f, n - 1)

\* C10: each slice's percentage is its group's count over the count of export
\* rows and is shown to the nearest tenth; the group counts sum to the total in
\* the centre; the shown percentages of a chart with slices sum to 100.0 within
\* the rounding of each (0.05 per slice).
C10_Percentages ==
    breakdown.status = "rendered" =>
      LET w == breakdown.wedges
          n == Len(w)
          shown == SumOver([i \in 1..n |-> w[i].autotext], n)
      IN  /\ breakdown.total_exports = Cardinality(ExportRows(dataset))
          /\ SumOver([i \in 1..n |-> w[i].value], n) = breakdown.total_exports
          /\ \A i \in 1..n :
                /\ w[i].value
                     = Cardinality({r \in ExportRows(dataset) :
                                      CellsOf(dataset, s_EventType)[r] = breakdown.index[i]})
                /\ w[i].percent[1] * breakdown.total_exports = 100 * w[i].value * w[i].percent[2]
                /\ 20 * w[i].percent[1] - 2 * w[i].autotext * w[i].percent[2] <= w[i].percent[2]
                /\ 2 * w[i].autotext * w[i].percent[2] - 20 * w[i].percent[1] <= w[i].percent[2]
          /\ n > 0 => (2 * (shown - 1000) <= n /\ 2 * (1000 - shown) <= n)

\* C10 witness: 7 pdf exports and 3 csv exports: 70.0% and 30.0%, 10 in the centre.
C10_Witness ==
    /\ breakdown.status = "rendered"
    /\ breakdown.total_exports = 10
    /\ Len(breakdown.wedges) = 2
    /\ breakdown.wedges[1].value = 7 /\ breakdown.wedges[1].autotext = 700
    /\ breakdown.wedges[2].value = 3 /\ breakdown.wedges[2].autotext = 300

\* x is in title case: a letter is upper case exactly when no letter precedes it.
IsTitleCase(x) ==
    \A i \in 1..Len(x) :
        is_cased(x[i]) =>
            IF i > 1 /\ is_cased(x[i - 1]) THEN x[i] = lower_char(x[i]) ELSE x[i] = upper_char(x[i])

\* x is a word in title case followed by ' Export'.
IsTitleThenExport(x) ==
    /\ Len(x) > Len(s_space_Export)
    /\ SubSeq(x, Len(x) - Len(s_space_Export) + 1, Len(x)) = s_space_Export
    /\ x[1] # " "
    /\ IsTitleCase(x)

\* The export types of the table: the EventType values that contain 'export'
\* ignoring case.
ExportTypes(df) == {CellsOf(df, s_EventType)[r] : r \in ExportRows(df)}

\* Every row that passes the filter is kept, and the slices are the exact
\* EventType values of the kept rows, one slice per value, with its rows counted.
KeptByExactType ==
    /\ Len(breakdown.index) = Cardinality(ExportTypes(dataset))
    /\ {breakdown.index[i] : i \in 1..Len(breakdown.index)} = ExportTypes(dataset)
    /\ \A i \in 1..Len(breakdown.index) :
          breakdown.wedges[i].value
            = Cardinality({r \in ExportRows(dataset) :
                             CellsOf(dataset, s_EventType)[r] = breakdown.index[i]})

\* A type of the fixed lookup is shown under its fixed display name.
LookupNames ==
    \A i \in 1..Len(breakdown.index) :
        breakdown.index[i] \in DOMAIN export_type_mapping
          => breakdown.wedges[i].label = export_type_mapping[breakdown.index[i]]

\* C11: every row whose EventType contains 'Export' ignoring case is kept and
\* grouped by its exact EventType; a type of the fixed lookup gets its fixed
\* display name, and every other kept type gets a display name that is a word in
\* title case followed by ' Export' ('htmlExport' gives 'Html Export').
C11_DisplayNames ==
    breakdown.status = "rendered" =>
      /\ KeptByExactType
      /\ LookupNames
      /\ \A i \in 1..Len(breakdown.index) :
            /\ breakdown.index[i] = s_htmlExport
                 => breakdown.wedges[i].label = <<"H","t","m","l"," ","E","x","p","o","r","t">>
            /\ breakdown.index[i] \notin DOMAIN export_type_mapping
                 => IsTitleThenExport(breakdown.wedges[i].label)

====
